---- MODULE Spec2Model ----
(***************************************************************************)
(* Query-descriptor builder (Table) and execution orchestrator            *)
(* (Table.getResponse) of Dbcube/query-builder, with the Trigger lookup.   *)
(*                                                                         *)
(* Two versions of lib/Database.ts are in the repository:                  *)
(*   impl = "lib"  : src/src/lib/Database.ts, every chain step mutates     *)
(*                   `this` and returns it;                                *)
(*   impl = "part" : src/unnamed/part_002, every method opens with         *)
(*                   `const clone = this.clone()` and works on the clone.  *)
(* getResponse is the same text in both.                                   *)
(*                                                                         *)
(* A terminal call is modelled between its suspension points: the action   *)
(* that starts it runs the synchronous prefix up to the first await        *)
(* (a trigger handler or an engine request); hookReturn, hookThrow and     *)
(* engineReply resume it up to the next await or to its completion.        *)
(***************************************************************************)
EXTENDS Integers, Sequences, FiniteSets, TLC

VARIABLES impl, database, heap, call, sent, log, outcome, hist, ops, peer

vars == <<impl, database, heap, call, sent, log, outcome, hist, ops, peer>>

----------------------------------------------------------------------------
(* Bounds *)

\* user-level API calls (chain steps and terminal calls) in one behaviour
MaxOps == 2
\* the same, for the callers that reuse one base builder
MaxReuseOps == 4
\* the same, for the callers that start from a builder already chained once
MaxFrameOps == 1
\* the same, for the callers that only filter and mutate
MaxMutateOps == 2
\* the same, for the callers that select columns and read
MaxColumnOps == 3
\* the same, for the callers that build condition groups
MaxGroupOps == 3
\* the same, for the callers that build WHERE sequences
MaxWhereOps == 3
\* the same, for the callers that aggregate
MaxAggregateOps == 4
\* the same, for the callers that join, sort and group
MaxOrderOps == 3
\* the same, for the callers that overlap two terminal calls
MaxConcurrentOps == 2
\* the same, for the callers that shape a query and delete
MaxDeleteOps == 3
\* the same, for the callers that sort and paginate
MaxPageOps == 3
\* the same, for the callers that activate and open tables
MaxActivateOps == 3
\* rows in an insert payload
MaxRows == 2

----------------------------------------------------------------------------
(* Values *)

Undefined == [tag |-> "undefined", v |-> <<>>]
Scalar(s) == [tag |-> "scalar", v |-> <<s>>]
Array(s) == [tag |-> "array", v |-> s]

\* optional numbers (limit, offset) and optional records (aggregation)
Null == <<>>
Some(x) == <<x>>

\* dml.data: null, an array of items, or a single object
NoData == [kind |-> "null", items |-> <<>>]
ArrayData(items) == [kind |-> "array", items |-> items]
ObjectData(o) == [kind |-> "object", items |-> <<o>>]
StringData == [kind |-> "string", items |-> <<>>]

\* payload items: what `typeof item` and `item !== null` see
Obj(n) == [typeof |-> "object", isNull |-> FALSE, id |-> n]
NullItem == [typeof |-> "object", isNull |-> TRUE, id |-> 0]
NumberItem == [typeof |-> "number", isNull |-> FALSE, id |-> 0]

----------------------------------------------------------------------------
(* Sequence helpers *)

\* a rewrite that leaves the computed-field name in the column list
SeqKeep(s, x) == s

RECURSIVE SeqFilter(_, _)
SeqFilter(s, x) ==
    IF s = <<>> THEN <<>>
    ELSE IF Head(s) = x THEN SeqFilter(Tail(s), x)
         ELSE <<Head(s)>> \o SeqFilter(Tail(s), x)

Range(s) == {s[i] : i \in 1..Len(s)}

\* Array.from(new Set(s)): first occurrences, in order
RECURSIVE SetOrder(_)
SetOrder(s) ==
    IF s = <<>> THEN <<>>
    ELSE LET front == SetOrder(SubSeq(s, 1, Len(s) - 1))
             x == s[Len(s)]
         IN IF x \in Range(front) THEN front ELSE Append(front, x)

\* Array.prototype.find: first element satisfying the test, as 0 or 1 elements
RECURSIVE FindType(_, _)
FindType(s, type) ==
    IF s = <<>> THEN <<>>
    ELSE IF Head(s).type = type THEN <<Head(s)>>
         ELSE FindType(Tail(s), type)

RECURSIVE FindColumn(_, _)
FindColumn(s, col) ==
    IF s = <<>> THEN <<>>
    ELSE IF Head(s).column = col THEN <<Head(s)>>
         ELSE FindColumn(Tail(s), col)

----------------------------------------------------------------------------
(* Collaborators (@dbcube/core), as the code uses them *)

\* ComputedFieldProcessor.getComputedFields(name); `deps` stands for
\* extractDependencies(instruction)
ComputedRegistry ==
    << [column |-> "full_name", deps |-> <<"first", "last">>] >>

extractDependencies(cf) == cf.deps

\* TriggerProcessor.getTriggers(name): the registries a project may hold
Trig(type, table) == [type |-> type, table_ref |-> table]

TriggerRegistries ==
    { <<>>,
      << Trig("beforeAdd", "users"), Trig("beforeUpdate", "users"),
         Trig("beforeDelete", "users") >>,
      << Trig("afterAdd", "users"), Trig("afterUpdate", "users"),
         Trig("afterDelete", "users") >>,
      << Trig("beforeAdd", "users"), Trig("afterAdd", "users"),
         Trig("beforeUpdate", "users"), Trig("afterUpdate", "users") >>,
      << Trig("beforeAdd", "orders") >> }

\* columns of the table, for `*`
AllColumns == {"id", "first", "last"}

\* the rows the engine returns for a request: none, or one row holding the
\* requested columns
RowFor(dml) ==
    IF dml.aggregation # Null THEN {dml.aggregation[1].alias}
    ELSE IF "*" \in Range(dml.columns)
         THEN AllColumns \cup (Range(dml.columns) \ {"*"})
         ELSE Range(dml.columns)

Response(status, data) == [status |-> status, data |-> data]

\* response.data: undefined on a failure; on a success the result rows of
\* a select, and no rows for a mutation
\* a select with an aggregate over no rows may also answer with one row
\* that holds no value under the alias (SQL: SUM/AVG/MAX/MIN give NULL)
Responses(dml) ==
    IF dml.type = "select"
    THEN { Response(200, Array(<<>>)), Response(200, Array(<<RowFor(dml)>>)),
           Response(500, Undefined) }
         \cup (IF dml.aggregation # Null
               THEN { Response(200, Array(<<{}>>)) } ELSE {})
    ELSE { Response(200, Array(<<>>)), Response(500, Undefined) }

----------------------------------------------------------------------------
(* Table *)

\* Table constructor
Table(tableName, computedFields, triggers) ==
    [ nextType |-> "AND",
      computedFields |-> computedFields,
      triggers |-> triggers,
      dml |-> [ type |-> "select",
                table |-> tableName,
                columns |-> <<"*">>,
                distinct |-> FALSE,
                joins |-> <<>>,
                where |-> <<>>,
                orderBy |-> <<>>,
                groupBy |-> <<>>,
                limit |-> Null,
                offset |-> Null,
                data |-> NoData,
                aggregation |-> Null ] ]

\* Table.clone (part_002): a new object with copied sequences
clone(t) ==
    [ nextType |-> t.nextType,
      computedFields |-> t.computedFields,
      triggers |-> t.triggers,
      dml |-> [ t.dml EXCEPT !.columns = t.dml.columns,
                             !.joins = t.dml.joins,
                             !.where = t.dml.where,
                             !.orderBy = t.dml.orderBy,
                             !.groupBy = t.dml.groupBy ] ]

\* a method that works on `this` where part_002 clones
CloneRefThis(h, b) == b

\* the object a method works on and returns: `this` in lib, a newly
\* allocated clone in part_002
CloneRef(h, b) == IF impl = "part" THEN Len(h) + 1 ELSE b

\* heap after the method has obtained its working object
WithClone(h, b) ==
    LET r == CloneRef(h, b)
    IN IF r > Len(h) THEN Append(h, clone(h[b])) ELSE h

Leaf(column, operator, value, type) ==
    [ column |-> column, operator |-> operator, value |-> value,
      type |-> type, isGroup |-> FALSE, conditions |-> <<>> ]

Group(type, conditions) ==
    [ column |-> "", operator |-> "", value |-> Undefined,
      type |-> type, isGroup |-> TRUE, conditions |-> conditions ]

\* the arguments of where/orWhere used by the callers of the model
CondArgs ==
    { [column |-> "age", operator |-> ">", value |-> Scalar("18")],
      [column |-> "name", operator |-> "=", value |-> Scalar("Alice")] }

----------------------------------------------------------------------------
(* State *)

Idle ==
    [ pc |-> "idle", op |-> "", recv |-> 0, self |-> 0, alias |-> TRUE,
      ldml |-> <<>>, type |-> "", needed |-> <<>>,
      deps |-> <<>>, before |-> FALSE, after |-> FALSE, dataset |-> <<>>,
      index |-> 0, newDML |-> <<>>,
      arrayResult |-> Array(<<>>), ret |-> Array(<<>>), stage |-> 0 ]

NoOutcome == [state |-> "none", error |-> "", value |-> Undefined]

\* a second terminal call started on the same builder while the first one
\* is suspended: idle, or waiting for the engine with its request
NoPeer ==
    [ pc |-> "idle", dml |-> <<>>, needed |-> <<>>, deps |-> <<>>,
      outcome |-> NoOutcome ]

----------------------------------------------------------------------------
(* Execution orchestrator: Table.getResponse *)

\* The state a terminal call reads and writes, as one value
State == [heap |-> heap, call |-> call, sent |-> sent, log |-> log,
          outcome |-> outcome]

Event(ev, phase, index, table, status) ==
    [ev |-> ev, phase |-> phase, index |-> index, table |-> table,
     status |-> status, data |-> Undefined]

Logged(st, e) == [st EXCEPT !.log = Append(@, e)]

Self(st) == st.heap[st.call.self]

\* `const localDML = dml ? dml : this.dml`: an alias of the object's
\* descriptor, or the separate object the caller passed
LocalDML(st) == IF st.call.alias THEN Self(st).dml ELSE st.call.ldml

SetLocalColumns(st, columns) ==
    IF st.call.alias
    THEN [st EXCEPT !.heap[st.call.self].dml.columns = columns]
    ELSE [st EXCEPT !.call.ldml.columns = columns]

\* Trigger.get
triggerGet(triggers, type) == FindType(triggers, type)

\* the terminal method's promise settles; the working clone of part_002
\* is no longer referenced
Settle(st, state, error, value) ==
    [st EXCEPT
        !.outcome = [state |-> state, error |-> error, value |-> value],
        !.call = Idle,
        !.heap = IF st.call.self # st.call.recv /\ st.call.self = Len(@)
                 THEN SubSeq(@, 1, Len(@) - 1) ELSE @]

Throw(st, error) == Settle(st, "rejected", error, Undefined)

\* returnFormattedError: builds the coloured text and console.error()s it
returnFormattedError(st, status) ==
    Logged(st, Event("console.error", "", st.call.index, "", status))

\* the for loop over localDML.columns in getResponse
RECURSIVE rewriteColumns(_, _, _)
rewriteColumns(computedFields, fields, acc) ==
    IF fields = <<>> THEN acc
    ELSE LET field == Head(fields)
             computedField == FindColumn(computedFields, field)
         IN IF computedField = <<>>
            THEN rewriteColumns(computedFields, Tail(fields), acc)
            ELSE LET dependencies == extractDependencies(computedField[1])
                 IN rewriteColumns(computedFields, Tail(fields),
                      [ needed |-> Append(acc.needed, computedField[1]),
                        deps |-> acc.deps \o dependencies,
                        columns |-> SeqFilter(
                            SetOrder(acc.columns \o dependencies), field) ])

\* this.engine.run('query_engine', ['--action', 'execute', '--dml', ...])
Send(st, dml, pc) ==
    [ Logged(st, Event("request", "", st.call.index, "", 0))
        EXCEPT !.sent = Append(@, [index |-> st.call.index, dml |-> dml]),
               !.call.pc = pc ]

\* Trigger.execute up to the call of the handler: begins the console
\* capture and calls the handler module of the trigger found by type
StartHook(st, phase) ==
    LET trigger == FindType(Self(st).triggers, phase \o st.call.type)[1]
    IN [ Logged(st, Event("hook", phase, st.call.index,
                          trigger.table_ref, 0))
           EXCEPT !.call.pc = "hook." \o phase ]

RowKeys(row, needed) == row \cup {needed[i].column : i \in 1..Len(needed)}

\* what the terminal method does with the value getResponse returned
RECURSIVE Return(_, _)
RECURSIVE getResponse(_, _)

\* the end of getResponse: materialize and strip, then return
PostProcess(st) ==
    IF st.call.needed # <<>>
    THEN IF st.call.arrayResult.tag # "array"
         THEN Throw(st, "TypeError")
         ELSE Return(st, Array(
                [ i \in 1..Len(st.call.arrayResult.v) |->
                    RowKeys(st.call.arrayResult.v[i], st.call.needed)
                        \ Range(st.call.deps) ]))
    ELSE Return(st, st.call.arrayResult)

\* a loop that takes the payload rows from the last to the first
LoopReversed(st) ==
    IF st.call.index >= Len(st.call.dataset) THEN PostProcess(st)
    ELSE LET data == st.call.dataset[Len(st.call.dataset) - st.call.index]
             newDML == [LocalDML(st) EXCEPT !.data = ArrayData(<<data>>)]
             st1 == [st EXCEPT !.call.newDML = newDML]
         IN IF st.call.before THEN StartHook(st1, "before")
            ELSE Send(st1, newDML, "request.after")

\* the head of the for loop over the payload rows
Loop(st) ==
    IF st.call.index >= Len(st.call.dataset) THEN PostProcess(st)
    ELSE LET data == st.call.dataset[st.call.index + 1]
             newDML == [LocalDML(st) EXCEPT !.data = ArrayData(<<data>>)]
             st1 == [st EXCEPT !.call.newDML = newDML]
         IN IF st.call.before THEN StartHook(st1, "before")
            ELSE Send(st1, newDML, "request.after")

NextRow(st) == Loop([st EXCEPT !.call.index = @ + 1])

getResponse(st, type) ==
    LET this == Self(st)
        rw == rewriteColumns(this.computedFields, LocalDML(st).columns,
                [ needed |-> <<>>, deps |-> <<>>,
                  columns |-> LocalDML(st).columns ])
        st0 == IF Len(this.computedFields) > 0
               THEN SetLocalColumns(st, rw.columns) ELSE st
        st1 == [st0 EXCEPT !.call.type = type, !.call.needed = rw.needed,
                           !.call.deps = rw.deps, !.call.index = 0,
                           !.call.arrayResult = Array(<<>>)]
        beffore == triggerGet(this.triggers, "before" \o type)
        after == triggerGet(this.triggers, "after" \o type)
        dataset == LocalDML(st1).data
    IN IF type # "" /\ Len(this.triggers) > 0
          /\ (beffore # <<>> \/ after # <<>>)
       THEN IF dataset.kind = "null" THEN Throw(st1, "TypeError")
            ELSE Loop([st1 EXCEPT
                    !.call.before = (beffore # <<>>),
                    !.call.after = (after # <<>>),
                    !.call.dataset = IF dataset.kind = "array"
                                     THEN dataset.items ELSE <<>>])
       ELSE Send(st1, LocalDML(st1), "request")

\* result[0] || null
FirstOrNull(result) ==
    IF Len(result.v) > 0 THEN [tag |-> "row", v |-> <<result.v[1]>>]
    ELSE [tag |-> "null", v |-> <<>>]

\* res ? res.<alias> : 0 in the terminal aggregates of part_002
AggregateValue(result, alias) ==
    IF Len(result.v) = 0 THEN [tag |-> "number", v |-> <<0>>]
    ELSE IF alias \in result.v[1] THEN [tag |-> "number", v |-> <<1>>]
         ELSE Undefined

Aggregates == {"count", "sum", "avg", "max", "min"}

Return(st, result) ==
    LET op == st.call.op
    IN CASE op = "get" -> Settle(st, "resolved", "", result)
         [] op = "first" ->
              IF result.tag # "array" THEN Throw(st, "TypeError")
              ELSE Settle(st, "resolved", "", FirstOrNull(result))
         [] op = "find" ->
              IF result.tag # "array"
              THEN IF impl = "lib"
                   THEN Settle(st, "resolved", "", [tag |-> "null", v |-> <<>>])
                   ELSE Throw(st, "TypeError")
              ELSE Settle(st, "resolved", "", FirstOrNull(result))
         [] op \in {"insert", "update"} ->
              Settle(st, "resolved", "", st.call.ret)
         [] op = "delete" ->
              IF impl = "lib" /\ st.call.stage = 1
              THEN getResponse([st EXCEPT !.call.stage = 2,
                                          !.call.ret = result,
                                          !.call.alias = TRUE], "")
              ELSE IF impl = "lib"
                   THEN Settle(st, "resolved", "", st.call.ret)
                   ELSE Settle(st, "resolved", "", result)
         [] OTHER ->
              IF result.tag # "array" THEN Throw(st, "TypeError")
              ELSE Settle(st, "resolved", "", AggregateValue(result, op))

\* the code after `await this.engine.run(...)`
onResponse(st, response) ==
    LET st1 == Logged(st, [ Event("response", "", st.call.index, "",
                                  response.status)
                              EXCEPT !.data = response.data ])
        failed == response.status # 200
    IN CASE st.call.pc = "request" ->
              PostProcess([ (IF failed
                             THEN returnFormattedError(st1, response.status)
                             ELSE st1)
                            EXCEPT !.call.arrayResult = response.data ])
         [] st.call.pc = "request.before" ->
              LET st2 == IF failed
                         THEN returnFormattedError(
                                Logged(st1, Event("discard", "before",
                                    st.call.index, "", 0)), response.status)
                         ELSE st1
                  st3 == [ Logged(st2, Event("commit", "before",
                                             st.call.index, "", 0))
                           EXCEPT !.call.arrayResult = response.data ]
              IN IF st.call.after
                 THEN Send(st3, st3.call.newDML, "request.after")
                 ELSE NextRow(st3)
         [] OTHER ->
              StartHook(IF failed
                        THEN returnFormattedError(st1, response.status)
                        ELSE st1, "after")

\* Trigger.execute after the handler has returned, and the code after
\* `await this.trigger.execute(...)`
onHookReturn(st) ==
    LET st1 == Logged(st, Event("restore", "", st.call.index, "", 0))
    IN IF st.call.pc = "hook.before"
       THEN Send(st1, st1.call.newDML, "request.before")
       ELSE NextRow(Logged(st1, Event("commit", "after", st.call.index,
                                      "", 0)))

Commit(st) ==
    /\ heap' = st.heap
    /\ call' = st.call
    /\ sent' = st.sent
    /\ log' = st.log
    /\ outcome' = st.outcome

\* the engine answers the outstanding request
engineReply ==
    /\ call.pc \in {"request", "request.before", "request.after"}
    /\ \E response \in Responses(sent[Len(sent)].dml) :
          Commit(onResponse(State, response))
    /\ UNCHANGED <<impl, database, hist, ops, peer>>

\* the trigger handler returns
hookReturn ==
    /\ call.pc \in {"hook.before", "hook.after"}
    /\ Commit(onHookReturn(State))
    /\ UNCHANGED <<impl, database, hist, ops, peer>>

\* a handler error that is caught and ignored: the call goes on as if the
\* handler had returned
hookThrowSwallowed ==
    /\ call.pc \in {"hook.before", "hook.after"}
    /\ Commit(onHookReturn(Logged(State, Event("throw", "", call.index, "", 0))))
    /\ UNCHANGED <<impl, database, hist, ops, peer>>

\* the trigger handler throws: Trigger.execute rejects before
\* interceptor.restore(), and getResponse rejects with the same error
hookThrow ==
    /\ call.pc \in {"hook.before", "hook.after"}
    /\ Commit(Throw(Logged(State, Event("throw", "", call.index, "", 0)),
                    "HandlerError"))
    /\ UNCHANGED <<impl, database, hist, ops, peer>>

----------------------------------------------------------------------------
(* Arguments used by the callers of the model *)

SelectArgs == { <<>>, <<"id">>, <<"first", "full_name">> }

BetweenArgs == { <<Scalar("20"), Scalar("30")>>, <<Undefined, Scalar("30")>> }

InArgs == { Array(<<"1", "2">>), Array(<<>>), Scalar("1") }

Directions == {"ASC", "desc", "up"}

Limits == {0, 5}

Pages == {0, 2}

\* the callbacks passed to whereGroup, as the calls they chain on the
\* sub-builder: q => q.where(a).orWhere(b) of the README, and a callback
\* that opens a nested group; `inner` is the callback of a whereGroup step
ChainStep(op, column, operator, value, inner) ==
    [ op |-> op,
      arg |-> [column |-> column, operator |-> operator, value |-> value],
      inner |-> inner ]

Callbacks ==
    { << ChainStep("where", "age", ">", Scalar("25"), <<>>),
         ChainStep("orWhere", "name", "=", Scalar("Jane"), <<>>) >>,
      << ChainStep("where", "age", ">", Scalar("25"), <<>>),
         ChainStep("whereGroup", "", "", Undefined,
            << ChainStep("where", "city", "=", Scalar("Lima"), <<>>),
               ChainStep("orWhere", "vip", "=", Scalar("1"), <<>>) >>) >> }

\* find(1) and find('john@example.com', 'email') of the README
FindArgs == { <<Scalar("1"), "id">>, <<Scalar("john@example.com"), "email">> }

RECURSIVE ValidRows(_)
ValidRows(n) == IF n = 0 THEN <<>> ELSE Append(ValidRows(n - 1), Obj(n))

InsertArgs ==
    {StringData}
    \cup {ArrayData(ValidRows(n)) : n \in 0..MaxRows}
    \cup {ArrayData(Append(ValidRows(n), bad)) :
            n \in 0..(MaxRows - 1), bad \in {NullItem, NumberItem}}

UpdateArgs == { ObjectData(Obj(1)), ArrayData(<<Obj(1)>>), StringData, NoData }

\* String.prototype.toUpperCase on the directions above
\* a comparison that keeps the letter case
toSameCase(s) == s

toUpperCase(s) == IF s = "desc" THEN "DESC" ELSE IF s = "up" THEN "UP" ELSE s

----------------------------------------------------------------------------
(* Chain steps: what each method does to the object it works on *)

wherePush(t, c) ==
    [t EXCEPT !.dml.where =
                  Append(@, Leaf(c.column, c.operator, c.value, t.nextType)),
              !.nextType = "AND"]

\* orWhere that resets the pending connective as where does
orWherePushReset(t, c) ==
    [t EXCEPT !.dml.where =
                  Append(@, Leaf(c.column, c.operator, c.value, "OR")),
              !.nextType = "AND"]

orWherePush(t, c) ==
    [t EXCEPT !.dml.where =
                  Append(@, Leaf(c.column, c.operator, c.value, "OR"))]

selectSet(t, fields) ==
    [t EXCEPT !.dml.type = "select",
              !.dml.columns = IF Len(fields) > 0 THEN fields ELSE <<"*">>]

\* a method called on object t inside another method: in part_002 it
\* works on one more clone, which the caller drops
InnerCall(t, t2) == IF CloneRef(<<t>>, 1) = 1 THEN t2 ELSE t

\* the callback's chain q.m1(..).m2(..) on the sub-builder q: each call
\* works on the object the previous one returned; the result is q itself
RECURSIVE RunChain(_, _, _)
RECURSIVE whereGroupPush(_, _)
RunChain(h, cur, script) ==
    IF script = <<>> THEN h[1]
    ELSE LET r == CloneRef(h, cur)
             h1 == WithClone(h, cur)
             step == Head(script)
             t == CASE step.op = "where" -> wherePush(h1[r], step.arg)
                    [] step.op = "orWhere" -> orWherePush(h1[r], step.arg)
                    [] OTHER -> whereGroupPush(h1[r], step.inner)
         IN RunChain([h1 EXCEPT ![r] = t], r, Tail(script))

\* a whereGroup that reads the conditions of a builder the callback did
\* not write to
whereGroupPushNew(t, callback) ==
    [t EXCEPT !.dml.where =
                  Append(@, Group(t.nextType,
                                  Table(t.dml.table, <<>>, <<>>).dml.where)),
              !.nextType = "AND"]

\* whereGroup: `new Table(...)` for the callback has no computed fields
\* and no triggers
whereGroupPush(t, callback) ==
    LET groupQuery == RunChain(<<Table(t.dml.table, <<>>, <<>>)>>, 1, callback)
    IN [t EXCEPT !.dml.where = Append(@, Group(t.nextType, groupQuery.dml.where)),
                 !.nextType = "AND"]

whereBetweenPush(t, column, values) ==
    IF values[1] # Undefined /\ values[2] # Undefined
    THEN [t EXCEPT !.dml.where =
                      Append(@, Leaf(column, "BETWEEN",
                                     Array(<<values[1], values[2]>>), t.nextType)),
                   !.nextType = "AND"]
    ELSE t

\* whereIn without the length check
whereInPushAnyArray(t, column, values) ==
    IF values.tag = "array"
    THEN [t EXCEPT !.dml.where =
                      Append(@, Leaf(column, "IN", values, t.nextType)),
                   !.nextType = "AND"]
    ELSE t

whereInPush(t, column, values) ==
    IF values.tag = "array" /\ Len(values.v) > 0
    THEN [t EXCEPT !.dml.where =
                      Append(@, Leaf(column, "IN", values, t.nextType)),
                   !.nextType = "AND"]
    ELSE t

whereNullPush(t, column, operator) ==
    [t EXCEPT !.dml.where =
                  Append(@, Leaf(column, operator, Undefined, t.nextType)),
              !.nextType = "AND"]

\* a join that puts its entry in front of the others
joinUnshift(t, type, table, column1, operator, column2) ==
    [t EXCEPT !.dml.joins =
        << [ type |-> type, table |-> table,
             on |-> [ column1 |-> column1, operator |-> operator,
                      column2 |-> column2 ] ] >> \o @]

joinPush(t, type, table, column1, operator, column2) ==
    [t EXCEPT !.dml.joins =
        Append(@, [ type |-> type, table |-> table,
                    on |-> [ column1 |-> column1, operator |-> operator,
                             column2 |-> column2 ] ])]

orderByPush(t, column, direction) ==
    [t EXCEPT !.dml.orderBy =
        Append(@, [column |-> column, direction |-> toUpperCase(direction)])]

pageSet(t, number) ==
    IF t.dml.limit # Null /\ t.dml.limit # Some(0)
    THEN [t EXCEPT !.dml.offset = Some((number - 1) * t.dml.limit[1])]
    ELSE t

\* `${FN}(${column}) AS ${alias}`
AggregateExpr(fn, column) ==
    (CASE fn = "count" -> "COUNT(" [] fn = "sum" -> "SUM("
       [] fn = "avg" -> "AVG(" [] fn = "max" -> "MAX(" [] OTHER -> "MIN(")
    \o column \o ") AS " \o fn

aggregateSet(t, fn, column) ==
    LET t1 == [t EXCEPT
                 !.dml.type = "select",
                 !.dml.aggregation =
                    Some([ type |-> CASE fn = "count" -> "COUNT"
                                      [] fn = "sum" -> "SUM"
                                      [] fn = "avg" -> "AVG"
                                      [] fn = "max" -> "MAX"
                                      [] OTHER -> "MIN",
                           column |-> column, alias |-> fn ]),
                 !.dml.columns = <<AggregateExpr(fn, column)>>]
    IN IF impl = "part"
       THEN [t1 EXCEPT !.dml.data = NoData, !.dml.limit = Some(1)]
       ELSE t1

----------------------------------------------------------------------------
(* The caller's steps *)

Ready(b) == call.pc = "idle" /\ ops > 0 /\ b \in 1..Len(heap)

\* the object the method works on, as it is when the method starts
Work(b) == WithClone(heap, b)[CloneRef(heap, b)]

Called(b, op, arg, ret) ==
    /\ hist' = Append(hist, [op |-> op, recv |-> b, ret |-> ret, arg |-> arg])
    /\ ops' = ops - 1
    /\ impl' = impl
    /\ database' = database
    /\ peer' = peer

\* a chain step returns the object it worked on, now t
Chain(b, op, arg, t) ==
    /\ Ready(b)
    /\ heap' = [WithClone(heap, b) EXCEPT ![CloneRef(heap, b)] = t]
    /\ Called(b, op, arg, CloneRef(heap, b))
    /\ UNCHANGED <<call, sent, log, outcome>>

\* a method throws before it has changed anything
Fail(b, op, arg, error) ==
    /\ Ready(b)
    /\ Commit(Throw([State EXCEPT !.sent = <<>>, !.log = <<>>], error))
    /\ Called(b, op, arg, 0)

\* a terminal method calls getResponse(dml, type) on its working object,
\* now t; `alias` says that dml is absent or is the object's own descriptor
Start(b, op, arg, t, alias, ldml, type, ret) ==
    /\ Ready(b)
    /\ LET r == CloneRef(heap, b)
           st == [ heap |-> [WithClone(heap, b) EXCEPT ![r] = t],
                   call |-> [Idle EXCEPT !.op = op, !.recv = b, !.self = r,
                                         !.alias = alias, !.ldml = ldml,
                                         !.ret = ret, !.stage = 1],
                   sent |-> <<>>, log |-> <<>>, outcome |-> NoOutcome ]
       IN Commit(getResponse(st, type))
    /\ Called(b, op, arg, 0)

select(b, fields) == Chain(b, "select", fields, selectSet(Work(b), fields))

where(b, c) == Chain(b, "where", c, wherePush(Work(b), c))

orWhere(b, c) == Chain(b, "orWhere", c, orWherePush(Work(b), c))

whereGroup(b, callback) ==
    Chain(b, "whereGroup", callback, whereGroupPush(Work(b), callback))

or(b) == Chain(b, "or", <<>>, [Work(b) EXCEPT !.nextType = "OR"])

and(b) == Chain(b, "and", <<>>, [Work(b) EXCEPT !.nextType = "AND"])

whereBetween(b, values) ==
    Chain(b, "whereBetween", values, whereBetweenPush(Work(b), "age", values))

whereIn(b, values) ==
    Chain(b, "whereIn", values, whereInPush(Work(b), "id", values))

whereNull(b) ==
    Chain(b, "whereNull", <<>>, whereNullPush(Work(b), "email", "IS NULL"))

whereNotNull(b) ==
    Chain(b, "whereNotNull", <<>>,
          whereNullPush(Work(b), "email", "IS NOT NULL"))

join(b) ==
    Chain(b, "join", <<>>,
          joinPush(Work(b), "INNER", "orders", "users.id", "=", "orders.user_id"))

leftJoin(b) ==
    Chain(b, "leftJoin", <<>>,
          joinPush(Work(b), "LEFT", "orders", "users.id", "=", "orders.user_id"))

rightJoin(b) ==
    Chain(b, "rightJoin", <<>>,
          joinPush(Work(b), "RIGHT", "orders", "users.id", "=", "orders.user_id"))

orderBy(b, direction) ==
    IF toUpperCase(direction) \in {"ASC", "DESC"}
    THEN Chain(b, "orderBy", direction, orderByPush(Work(b), "name", direction))
    ELSE Fail(b, "orderBy", direction, "Error")

groupBy(b) ==
    Chain(b, "groupBy", <<>>, [Work(b) EXCEPT !.dml.groupBy = Append(@, "age")])

distinct(b) == Chain(b, "distinct", <<>>, [Work(b) EXCEPT !.dml.distinct = TRUE])

limit(b, number) ==
    Chain(b, "limit", number, [Work(b) EXCEPT !.dml.limit = Some(number)])

page(b, number) == Chain(b, "page", number, pageSet(Work(b), number))

\* count/sum/avg/max/min: a chain step in lib, a terminal call in part_002
aggregate(b, fn, column) ==
    IF impl = "part"
    THEN Start(b, fn, column, aggregateSet(Work(b), fn, column), TRUE,
               Idle.ldml, "", Undefined)
    ELSE Chain(b, fn, column, aggregateSet(Work(b), fn, column))

count(b) == aggregate(b, "count", "*")

sum(b) == aggregate(b, "sum", "age")

avg(b) == aggregate(b, "avg", "age")

max(b) == aggregate(b, "max", "age")

min(b) == aggregate(b, "min", "age")

get(b) ==
    Start(b, "get", <<>>,
          [Work(b) EXCEPT !.dml.type = "select", !.dml.data = NoData],
          TRUE, Idle.ldml, "", Undefined)

first(b) ==
    Start(b, "first", <<>>,
          [Work(b) EXCEPT !.dml.type = "select", !.dml.data = NoData,
                          !.dml.limit = Some(1)],
          TRUE, Idle.ldml, "", Undefined)

find(b, value, column) ==
    LET t == [Work(b) EXCEPT !.dml.type = "select", !.dml.data = NoData]
        c == [column |-> column, operator |-> "=", value |-> value]
        t1 == InnerCall(t, wherePush(t, c))
    IN Start(b, "find", [value |-> value, column |-> column],
             [t1 EXCEPT !.dml.limit = Some(1)],
             TRUE, Idle.ldml, "", Undefined)

\* the test without `item !== null`
everyObjectTypeof(items) ==
    \A i \in 1..Len(items) : items[i].typeof = "object"

\* data.every(item => typeof item === 'object' && item !== null)
everyObject(items) ==
    \A i \in 1..Len(items) : items[i].typeof = "object" /\ ~items[i].isNull

insert(b, data) ==
    IF data.kind # "array"
    THEN Fail(b, "insert", data, "ValidationError")
    ELSE IF ~everyObject(data.items)
         THEN Fail(b, "insert", data, "ValidationError")
         ELSE Start(b, "insert", data,
                    [Work(b) EXCEPT !.dml.type = "insert", !.dml.data = data],
                    TRUE, Idle.ldml, "Add", [tag |-> "data", v |-> <<data>>])

update(b, data) ==
    IF data.kind \in {"string", "array"}
    THEN Fail(b, "update", data, "ValidationError")
    ELSE IF Len(Work(b).dml.where) = 0
         THEN Fail(b, "update", data, "ValidationError")
         ELSE Start(b, "update", data,
                    [Work(b) EXCEPT !.dml.type = "update", !.dml.data = data],
                    TRUE, Idle.ldml, "Update", [tag |-> "data", v |-> <<data>>])

\* a delete that sends the builder's descriptor first and the select after
deleteThenSelect(b) ==
    IF Len(Work(b).dml.where) = 0
    THEN Fail(b, "delete", <<>>, "ValidationError")
    ELSE LET t == [Work(b) EXCEPT !.dml.type = "delete"]
             newDml == [t.dml EXCEPT !.type = "select", !.columns = <<"*">>,
                                     !.distinct = FALSE, !.joins = <<>>,
                                     !.orderBy = <<>>, !.groupBy = <<>>,
                                     !.limit = Null, !.offset = Null,
                                     !.data = NoData, !.aggregation = Null]
         IN Start(b, "delete", <<>>, [t EXCEPT !.dml = newDml], FALSE, t.dml,
                  "Delete", Undefined)

\* lib builds a separate select descriptor for the first getResponse
delete(b) ==
    IF Len(Work(b).dml.where) = 0
    THEN Fail(b, "delete", <<>>, "ValidationError")
    ELSE LET t == [Work(b) EXCEPT !.dml.type = "delete"]
             newDml == [t.dml EXCEPT !.type = "select", !.columns = <<"*">>,
                                     !.distinct = FALSE, !.joins = <<>>,
                                     !.orderBy = <<>>, !.groupBy = <<>>,
                                     !.limit = Null, !.offset = Null,
                                     !.data = NoData, !.aggregation = Null]
         IN IF impl = "lib"
            THEN Start(b, "delete", <<>>, t, FALSE, newDml, "Delete", Undefined)
            ELSE Start(b, "delete", <<>>, t, TRUE, Idle.ldml, "Delete", Undefined)

----------------------------------------------------------------------------
(* Database: constructor, useComputes, useTriggers, table *)

Database == [computedFields |-> <<>>, triggers |-> <<>>]

\* lib assigns the loaded list to this; part_002 returns a new Database
\* holding only the loaded list
useComputes(i, db) ==
    IF i = "part" THEN [Database EXCEPT !.computedFields = ComputedRegistry]
    ELSE [db EXCEPT !.computedFields = ComputedRegistry]

useTriggers(i, db, registry) ==
    IF i = "part" THEN [Database EXCEPT !.triggers = registry]
    ELSE [db EXCEPT !.triggers = registry]

\* the Database handles a caller can hold after activation
Databases(i, registries) ==
    LET one == {Database, useComputes(i, Database)}
                 \cup {useTriggers(i, Database, r) : r \in registries}
    IN one \cup {useComputes(i, db) : db \in one}
           \cup {useTriggers(i, db, r) : db \in one, r \in registries}

table(db, tableName) == Table(tableName, db.computedFields, db.triggers)

----------------------------------------------------------------------------
(* Specifications *)

InitCall(budget) ==
    /\ call = Idle
    /\ sent = <<>>
    /\ log = <<>>
    /\ outcome = NoOutcome
    /\ hist = <<>>
    /\ ops = budget
    /\ peer = NoPeer

Init ==
    /\ impl \in {"lib", "part"}
    /\ database \in Databases(impl, TriggerRegistries)
    /\ heap = <<table(database, "users")>>
    /\ InitCall(MaxOps)

Next ==
    \/ \E b \in 1..Len(heap), fields \in SelectArgs : select(b, fields)
    \/ \E b \in 1..Len(heap), c \in CondArgs : where(b, c)
    \/ \E b \in 1..Len(heap), c \in CondArgs : orWhere(b, c)
    \/ \E b \in 1..Len(heap), callback \in Callbacks : whereGroup(b, callback)
    \/ \E b \in 1..Len(heap) : or(b)
    \/ \E b \in 1..Len(heap) : and(b)
    \/ \E b \in 1..Len(heap), values \in BetweenArgs : whereBetween(b, values)
    \/ \E b \in 1..Len(heap), values \in InArgs : whereIn(b, values)
    \/ \E b \in 1..Len(heap) : whereNull(b)
    \/ \E b \in 1..Len(heap) : whereNotNull(b)
    \/ \E b \in 1..Len(heap) : join(b)
    \/ \E b \in 1..Len(heap) : leftJoin(b)
    \/ \E b \in 1..Len(heap) : rightJoin(b)
    \/ \E b \in 1..Len(heap), direction \in Directions : orderBy(b, direction)
    \/ \E b \in 1..Len(heap) : groupBy(b)
    \/ \E b \in 1..Len(heap) : distinct(b)
    \/ \E b \in 1..Len(heap), number \in Limits : limit(b, number)
    \/ \E b \in 1..Len(heap), number \in Pages : page(b, number)
    \/ \E b \in 1..Len(heap) : count(b)
    \/ \E b \in 1..Len(heap) : sum(b)
    \/ \E b \in 1..Len(heap) : avg(b)
    \/ \E b \in 1..Len(heap) : max(b)
    \/ \E b \in 1..Len(heap) : min(b)
    \/ \E b \in 1..Len(heap) : get(b)
    \/ \E b \in 1..Len(heap) : first(b)
    \/ \E b \in 1..Len(heap), a \in FindArgs : find(b, a[1], a[2])
    \/ \E b \in 1..Len(heap), data \in InsertArgs : insert(b, data)
    \/ \E b \in 1..Len(heap), data \in UpdateArgs : update(b, data)
    \/ \E b \in 1..Len(heap) : delete(b)
    \/ engineReply
    \/ hookReturn
    \/ hookThrow

Spec == Init /\ [][Next]_vars

\* callers that derive several queries from one base builder, which holds
\* one WHERE node (README, "WHERE Query": usersTable.where(..).get())
BaseCond == [column |-> "status", operator |-> "=", value |-> Scalar("active")]

InitReuse ==
    /\ impl \in {"lib", "part"}
    /\ database \in Databases(impl, {<<>>})
    /\ heap = <<wherePush(table(database, "users"), BaseCond)>>
    /\ InitCall(MaxReuseOps)

NextReuse ==
    \/ \E c \in CondArgs : where(1, c)
    \/ \E b \in 1..Len(heap) : get(b)
    \/ engineReply

SpecReuse == InitReuse /\ [][NextReuse]_vars

\* callers of part_002 that start from a builder as table() returns it or
\* chained once, and make any call on it
InitFrame ==
    /\ impl = "part"
    /\ database \in Databases(impl, TriggerRegistries)
    /\ heap \in { <<table(database, "users")>>,
                  <<selectSet(table(database, "users"), <<"first", "full_name">>)>>,
                  <<wherePush(table(database, "users"), BaseCond)>> }
    /\ InitCall(MaxFrameOps)

SpecFrame == InitFrame /\ [][Next]_vars

\* callers that filter and mutate, on a handle with or without triggers
InitMutate ==
    /\ impl \in {"lib", "part"}
    /\ database \in {useTriggers(impl, Database, r) : r \in TriggerRegistries}
    /\ heap = <<table(database, "users")>>
    /\ InitCall(MaxMutateOps)

NextMutate ==
    \/ \E b \in 1..Len(heap), c \in CondArgs : where(b, c)
    \/ \E b \in 1..Len(heap), data \in InsertArgs : insert(b, data)
    \/ \E b \in 1..Len(heap), data \in UpdateArgs : update(b, data)
    \/ \E b \in 1..Len(heap) : delete(b)
    \/ engineReply
    \/ hookReturn
    \/ hookThrow

SpecMutate == InitMutate /\ [][NextMutate]_vars

\* callers that choose columns and read, with and without computed fields
InitColumns ==
    /\ impl \in {"lib", "part"}
    /\ database \in Databases(impl, {<<>>})
    /\ heap = <<table(database, "users")>>
    /\ InitCall(MaxColumnOps)

NextColumns ==
    \/ \E b \in 1..Len(heap), fields \in SelectArgs : select(b, fields)
    \/ \E b \in 1..Len(heap) : get(b)
    \/ engineReply

SpecColumns == InitColumns /\ [][NextColumns]_vars

\* callers that build WHERE sequences with groups
InitGroup ==
    /\ impl \in {"lib", "part"}
    /\ database \in Databases(impl, {<<>>})
    /\ heap = <<table(database, "users")>>
    /\ InitCall(MaxGroupOps)

NextGroup ==
    \/ \E b \in 1..Len(heap), c \in CondArgs : where(b, c)
    \/ \E b \in 1..Len(heap) : or(b)
    \/ \E b \in 1..Len(heap), callback \in Callbacks : whereGroup(b, callback)

SpecGroup == InitGroup /\ [][NextGroup]_vars

\* where(column, operator, value), and where(column, operator) without a
\* value for an operator that needs one
WhereArgs ==
    { [column |-> "age", operator |-> ">", value |-> Scalar("18")],
      [column |-> "age", operator |-> ">", value |-> Undefined] }

\* callers that build WHERE sequences with every method of the family
InitWhere ==
    /\ impl \in {"lib", "part"}
    /\ database = Database
    /\ heap = <<table(database, "users")>>
    /\ InitCall(MaxWhereOps)

NextWhere ==
    \/ \E b \in 1..Len(heap), c \in WhereArgs : where(b, c)
    \/ \E b \in 1..Len(heap), c \in WhereArgs : orWhere(b, c)
    \/ \E b \in 1..Len(heap) : or(b)
    \/ \E b \in 1..Len(heap) : and(b)
    \/ \E b \in 1..Len(heap), values \in BetweenArgs : whereBetween(b, values)
    \/ \E b \in 1..Len(heap), values \in InArgs : whereIn(b, values)
    \/ \E b \in 1..Len(heap) : whereNull(b)
    \/ \E b \in 1..Len(heap) : whereNotNull(b)
    \/ \E b \in 1..Len(heap), callback \in Callbacks : whereGroup(b, callback)

SpecWhere == InitWhere /\ [][NextWhere]_vars

\* the columns selected before grouping (README, "GROUP BY Query")
GroupSelectArgs == { <<"age">>, <<"country", "age">> }

\* callers that aggregate, alone and in a grouped select
InitAggregate ==
    /\ impl \in {"lib", "part"}
    /\ database = Database
    /\ heap = <<table(database, "users")>>
    /\ InitCall(MaxAggregateOps)

NextAggregate ==
    \/ \E b \in 1..Len(heap), fields \in GroupSelectArgs : select(b, fields)
    \/ \E b \in 1..Len(heap) : count(b)
    \/ \E b \in 1..Len(heap) : sum(b)
    \/ \E b \in 1..Len(heap) : avg(b)
    \/ \E b \in 1..Len(heap) : max(b)
    \/ \E b \in 1..Len(heap) : min(b)
    \/ \E b \in 1..Len(heap) : groupBy(b)
    \/ \E b \in 1..Len(heap) : get(b)
    \/ engineReply

SpecAggregate == InitAggregate /\ [][NextAggregate]_vars

\* callers that join, sort and group, among other chain steps
InitOrder ==
    /\ impl \in {"lib", "part"}
    /\ database = Database
    /\ heap = <<table(database, "users")>>
    /\ InitCall(MaxOrderOps)

NextOrder ==
    \/ \E b \in 1..Len(heap) : join(b)
    \/ \E b \in 1..Len(heap) : leftJoin(b)
    \/ \E b \in 1..Len(heap) : rightJoin(b)
    \/ \E b \in 1..Len(heap), direction \in Directions : orderBy(b, direction)
    \/ \E b \in 1..Len(heap) : groupBy(b)
    \/ \E b \in 1..Len(heap) : distinct(b)
    \/ \E b \in 1..Len(heap), c \in CondArgs : where(b, c)
    \/ \E b \in 1..Len(heap), number \in Limits : limit(b, number)

SpecOrder == InitOrder /\ [][NextOrder]_vars

\* get() called on the builder of the suspended call, up to its own await:
\* lib writes type and data (and the rewritten columns) into this.dml,
\* part_002 into a clone; then it sends its request
getDuring ==
    /\ call.pc # "idle"
    /\ peer.pc = "idle"
    /\ ops > 0
    /\ LET b == call.recv
           t == [heap[b] EXCEPT !.dml.type = "select", !.dml.data = NoData]
           rw == rewriteColumns(t.computedFields, t.dml.columns,
                    [ needed |-> <<>>, deps |-> <<>>,
                      columns |-> t.dml.columns ])
           t1 == IF Len(t.computedFields) > 0
                 THEN [t EXCEPT !.dml.columns = rw.columns] ELSE t
       IN /\ heap' = IF impl = "lib" THEN [heap EXCEPT ![b] = t1] ELSE heap
          /\ peer' = [ pc |-> "request", dml |-> t1.dml, needed |-> rw.needed,
                       deps |-> rw.deps, outcome |-> NoOutcome ]
          /\ hist' = Append(hist, [op |-> "get", recv |-> b, ret |-> 0,
                                   arg |-> <<>>])
    /\ ops' = ops - 1
    /\ UNCHANGED <<impl, database, call, sent, log, outcome>>

\* the engine answers the request of the second call, which returns
peerReply ==
    /\ peer.pc = "request"
    /\ \E response \in Responses(peer.dml) :
          peer' = [ peer EXCEPT
                      !.pc = "idle",
                      !.outcome =
                         IF peer.needed = <<>>
                         THEN [ state |-> "resolved", error |-> "",
                                value |-> response.data ]
                         ELSE IF response.data.tag # "array"
                              THEN [ state |-> "rejected",
                                     error |-> "TypeError",
                                     value |-> Undefined ]
                              ELSE [ state |-> "resolved", error |-> "",
                                     value |-> Array(
                                        [ i \in 1..Len(response.data.v) |->
                                            RowKeys(response.data.v[i],
                                                    peer.needed)
                                               \ Range(peer.deps) ]) ] ]
    /\ UNCHANGED <<impl, database, heap, call, sent, log, outcome, hist, ops>>

\* callers that start get() while an insert is suspended
InitConcurrent ==
    /\ impl \in {"lib", "part"}
    /\ database \in {useTriggers(impl, Database, r) : r \in TriggerRegistries}
    /\ heap = <<table(database, "users")>>
    /\ InitCall(MaxConcurrentOps)

NextConcurrent ==
    \/ \E b \in 1..Len(heap), data \in InsertArgs : insert(b, data)
    \/ getDuring
    \/ peerReply
    \/ engineReply
    \/ hookReturn
    \/ hookThrow

SpecConcurrent == InitConcurrent /\ [][NextConcurrent]_vars

\* callers that shape a query and delete, with and without computed fields
InitDelete ==
    /\ impl \in {"lib", "part"}
    /\ database \in Databases(impl, {<<>>})
    /\ heap = <<table(database, "users")>>
    /\ InitCall(MaxDeleteOps)

NextDelete ==
    \/ \E b \in 1..Len(heap), fields \in SelectArgs : select(b, fields)
    \/ \E b \in 1..Len(heap), c \in CondArgs : where(b, c)
    \/ \E b \in 1..Len(heap) : join(b)
    \/ \E b \in 1..Len(heap), number \in Limits : limit(b, number)
    \/ \E b \in 1..Len(heap) : delete(b)
    \/ engineReply

SpecDelete == InitDelete /\ [][NextDelete]_vars

\* callers that sort, paginate and read
InitPage ==
    /\ impl \in {"lib", "part"}
    /\ database = Database
    /\ heap = <<table(database, "users")>>
    /\ InitCall(MaxPageOps)

NextPage ==
    \/ \E b \in 1..Len(heap), direction \in Directions : orderBy(b, direction)
    \/ \E b \in 1..Len(heap), number \in Limits : limit(b, number)
    \/ \E b \in 1..Len(heap), number \in Pages : page(b, number)
    \/ \E b \in 1..Len(heap) : get(b)
    \/ \E b \in 1..Len(heap) : first(b)
    \/ engineReply

SpecPage == InitPage /\ [][NextPage]_vars

\* `await db.useComputes()`: lib loads the list into the handle; part_002
\* returns a new handle, which the caller keeps in `db` or, as in the
\* README, drops
useComputesCall(keep) ==
    /\ call.pc = "idle" /\ ops > 0
    /\ database' = IF impl = "lib" \/ keep
                   THEN useComputes(impl, database) ELSE database
    /\ hist' = Append(hist, [op |-> "useComputes", recv |-> 0, ret |-> 0,
                             arg |-> keep])
    /\ ops' = ops - 1
    /\ UNCHANGED <<impl, heap, call, sent, log, outcome, peer>>

\* `await db.useTriggers()`, likewise
useTriggersCall(keep, registry) ==
    /\ call.pc = "idle" /\ ops > 0
    /\ database' = IF impl = "lib" \/ keep
                   THEN useTriggers(impl, database, registry) ELSE database
    /\ hist' = Append(hist, [op |-> "useTriggers", recv |-> 0, ret |-> 0,
                             arg |-> keep])
    /\ ops' = ops - 1
    /\ UNCHANGED <<impl, heap, call, sent, log, outcome, peer>>

\* `db.table("users")`: a new builder
tableCall ==
    /\ call.pc = "idle" /\ ops > 0
    /\ heap' = Append(heap, table(database, "users"))
    /\ hist' = Append(hist, [op |-> "table", recv |-> 0,
                             ret |-> Len(heap) + 1, arg |-> "users"])
    /\ ops' = ops - 1
    /\ UNCHANGED <<impl, database, call, sent, log, outcome, peer>>

\* the trigger list of the project, as TriggerProcessor.getTriggers loads it
LoadedTriggers == << Trig("beforeAdd", "users"), Trig("afterAdd", "users") >>

\* callers that construct a Database, activate and open tables
InitActivate ==
    /\ impl \in {"lib", "part"}
    /\ database = Database
    /\ heap = <<>>
    /\ InitCall(MaxActivateOps)

NextActivate ==
    \/ \E keep \in BOOLEAN : useComputesCall(keep)
    \/ \E keep \in BOOLEAN : useTriggersCall(keep, LoadedTriggers)
    \/ tableCall

SpecActivate == InitActivate /\ [][NextActivate]_vars

----------------------------------------------------------------------------
(* Reading the history *)

\* the latest API call; sent and log belong to it
Latest == hist[Len(hist)]

Called1(op) == Len(hist) > 0 /\ Latest.op = op

\* the latest call has settled
Settled == call.pc = "idle" /\ outcome.state # "none"

IsCond(node, c) ==
    /\ ~node.isGroup
    /\ node.column = c.column
    /\ node.operator = c.operator
    /\ node.value = c.value

HasCond(whereSeq, c) == \E n \in 1..Len(whereSeq) : IsCond(whereSeq[n], c)

HasEvent(ev, phase, index) ==
    \E k \in 1..Len(log) :
        log[k].ev = ev /\ log[k].phase = phase /\ log[k].index = index

Failures == {k \in 1..Len(log) : log[k].ev = "response" /\ log[k].status # 200}

Hooks == {k \in 1..Len(log) : log[k].ev = "hook"}

\* a trigger of one of the two phases of the event is registered for the table
Registered(t, event) ==
    \E k \in 1..Len(t.triggers) :
        /\ t.triggers[k].type \in {"before" \o event, "after" \o event}
        /\ t.triggers[k].table_ref = t.dml.table

----------------------------------------------------------------------------
(* Claims *)

\* C1 (lib): for a base builder B holding one WHERE node, after
\* B.where(x).get() has run, the request sent by B.where(y).get() has a
\* WHERE sequence that contains y and does not contain x.
C1_BranchIsolation ==
    \A x \in CondArgs, y \in CondArgs :
        ( /\ impl = "lib"
          /\ x # y
          /\ Len(hist) = 4
          /\ hist[1].op = "where" /\ hist[1].recv = 1 /\ hist[1].arg = x
          /\ hist[2].op = "get" /\ hist[2].recv = hist[1].ret
          /\ hist[3].op = "where" /\ hist[3].recv = 1 /\ hist[3].arg = y
          /\ hist[4].op = "get" /\ hist[4].recv = hist[3].ret
          /\ Len(sent) = 1 )
        => ( /\ HasCond(sent[1].dml.where, y)
             /\ ~HasCond(sent[1].dml.where, x) )


C3_FailureRejects ==
    (Settled /\ Failures # {}) =>
        (outcome.state = "rejected" /\ outcome.error = "EngineError")

\* C4: update(data) on a builder with at least one WHERE node reaches the
\* engine: exactly one request when no beforeUpdate/afterUpdate trigger is
\* registered, at least one when such a trigger is registered.
C4_UpdateReachesEngine ==
    ( /\ Called1("update")
      /\ Settled
      /\ Latest.arg.kind = "object"
      /\ Len(heap[Latest.recv].dml.where) >= 1 )
    => IF Registered(heap[Latest.recv], "Update")
       THEN Len(sent) >= 1
       ELSE Len(sent) = 1

\* what insert/update/delete must refuse
Invalid(e, t) ==
    \/ e.op \in {"update", "delete"} /\ Len(t.dml.where) = 0
    \/ /\ e.op = "insert"
       /\ \/ e.arg.kind # "array"
          \/ \E k \in 1..Len(e.arg.items) :
                e.arg.items[k].isNull \/ e.arg.items[k].typeof # "object"

\* C5: update(data) or delete() on a builder with zero WHERE nodes, and
\* insert(p) where p is not an array or holds an element that is null or not
\* an object, reject with no engine request and no hook execution, and leave
\* the builder's descriptor unchanged.
C5_ValidationBeforeDispatch ==
    [][ (hist' # hist /\ Invalid(hist'[Len(hist')],
                                 heap[hist'[Len(hist')].recv]))
        => ( /\ call'.pc = "idle"
             /\ outcome'.state = "rejected"
             /\ outcome'.error = "ValidationError"
             /\ sent' = <<>>
             /\ log' = <<>>
             /\ heap' = heap ) ]_vars

\* an insert whose payload holds a null element has been refused on a table
\* with a beforeAdd trigger
C5_Witness ==
    /\ Called1("insert")
    /\ Latest.arg.kind = "array"
    /\ \E k \in 1..Len(Latest.arg.items) : Latest.arg.items[k].isNull
    /\ Registered(heap[Latest.recv], "Add")
    /\ outcome.error = "ValidationError"
    /\ sent = <<>>

\* C6: insert(rows) with n rows on a table with a beforeAdd trigger, an
\* afterAdd trigger or both sends exactly n requests, the i-th carrying
\* exactly the i-th row.
C6_OneRequestPerRow ==
    ( /\ Called1("insert")
      /\ Settled
      /\ outcome.state = "resolved"
      /\ Failures = {}
      /\ Registered(heap[Latest.recv], "Add") )
    => ( /\ Len(sent) = Len(Latest.arg.items)
         /\ \A i \in 1..Len(sent) :
               sent[i].dml.data = ArrayData(<<Latest.arg.items[i]>>) )

\* C7: in an insert with a registered beforeAdd/afterAdd trigger, once the
\* request for row k has returned a non-200 status no request and no hook
\* is executed for a later row, and the insert rejects.
C7_FailureAbortsLoop ==
    (Called1("insert") /\ Registered(heap[Latest.recv], "Add"))
    => ( /\ \A k \in Failures : \A j \in 1..Len(log) :
               (j > k /\ log[j].ev \in {"request", "hook"})
                   => log[j].index <= log[k].index
         /\ (Settled /\ Failures # {}) => outcome.state = "rejected" )

\* C8: the interceptor of a row's before hook receives exactly one of
\* commit and discard: never both.
C8_CommitXorDiscard ==
    \A k \in 1..Len(log) :
        log[k].ev = "discard" =>
            ~HasEvent("commit", "before", log[k].index)

\* C9: a row's after hook is executed only after that row's engine request
\* has returned status 200.
C9_AfterHookOnSuccess ==
    \A k \in Hooks :
        log[k].phase = "after" =>
            (k > 1 /\ log[k - 1].ev = "response" /\ log[k - 1].status = 200
                   /\ log[k - 1].index = log[k].index)

\* C10: when the trigger list holds a trigger of the event only for another
\* table, insert issues exactly one request carrying the full payload and
\* executes no hook.
C10_OtherTableNotIntercepted ==
    ( /\ Called1("insert")
      /\ Settled
      /\ outcome.error # "ValidationError"
      /\ ~Registered(heap[Latest.recv], "Add") )
    => ( /\ Len(sent) = 1
         /\ sent[1].dml.data = Latest.arg
         /\ Hooks = {} )

\* the call before the latest one
Previous == hist[Len(hist) - 1]

\* the latest call is get() on the builder that select(C) returned
SelectThenGet ==
    /\ Len(hist) >= 2
    /\ Called1("get")
    /\ Previous.op = "select"
    /\ Latest.recv = Previous.ret

ComputedNames(t) ==
    {t.computedFields[i].column : i \in 1..Len(t.computedFields)}

DependenciesOf(t, C) ==
    UNION { Range(t.computedFields[i].deps) :
              i \in {k \in 1..Len(t.computedFields) :
                        t.computedFields[k].column \in Range(C)} }

\* C11: for select(C).get() where C holds a computed field, every returned
\* row exposes exactly the columns of C: the computed field, every other
\* column of C even when it is a dependency of the computed field, and no
\* dependency column that is not in C.
C11_RowsExposeRequested ==
    ( /\ SelectThenGet
      /\ Settled
      /\ outcome.state = "resolved"
      /\ outcome.value.tag = "array"
      /\ Range(Previous.arg) \cap ComputedNames(heap[Latest.recv]) # {} )
    => \A i \in 1..Len(outcome.value.v) :
          outcome.value.v[i] = Range(Previous.arg)

\* the column list select(C).get() must send, C being not empty
RequestColumnsOk(t, C, columns) ==
    IF Range(C) \cap ComputedNames(t) = {}
    THEN columns = C
    ELSE /\ Range(columns) =
              (Range(C) \ ComputedNames(t)) \cup DependenciesOf(t, C)
         /\ Cardinality(Range(columns)) = Len(columns)

\* C12 as stated: for every column sequence C, the empty one included, the
\* request of select(C).get() carries C, or C with the computed-field names
\* replaced by their dependency columns.
C12_RequestColumnsAnyC ==
    (SelectThenGet /\ Len(sent) >= 1)
    => RequestColumnsOk(heap[Latest.recv], Previous.arg, sent[1].dml.columns)

\* C12, amended: the same for every column sequence C that is not empty;
\* for the empty sequence the request carries the single column "*".
C12_RequestColumns ==
    (SelectThenGet /\ Len(sent) >= 1)
    => IF Previous.arg = <<>>
       THEN sent[1].dml.columns = <<"*">>
       ELSE RequestColumnsOk(heap[Latest.recv], Previous.arg,
                             sent[1].dml.columns)

\* select(["first", "full_name"]).get() has sent its request on a table
\* whose computed field full_name is active
C12_Witness ==
    /\ SelectThenGet
    /\ Len(sent) = 1
    /\ Previous.arg = <<"first", "full_name">>
    /\ "full_name" \in ComputedNames(heap[Latest.recv])
    /\ Range(sent[1].dml.columns) = {"first", "last"}

\* the nodes a callback chains on a sub-builder, in order: where adds a leaf
\* with the connective AND, orWhere a leaf with OR, whereGroup a group of
\* the nodes of its own callback
RECURSIVE ChainedNodes(_)
ChainedNodes(script) ==
    IF script = <<>> THEN <<>>
    ELSE LET step == Head(script)
             node == CASE step.op = "where" ->
                            Leaf(step.arg.column, step.arg.operator,
                                 step.arg.value, "AND")
                       [] step.op = "orWhere" ->
                            Leaf(step.arg.column, step.arg.operator,
                                 step.arg.value, "OR")
                       [] OTHER -> Group("AND", ChainedNodes(step.inner))
         IN <<node>> \o ChainedNodes(Tail(script))

\* this step is a whereGroup call
GroupStep == hist' # hist /\ hist'[Len(hist')].op = "whereGroup"

\* the whereGroup call of this step has appended one group that holds the
\* callback's nodes, tagged with the pending connective, and has reset the
\* connective; the nodes the builder held before are unchanged
GroupAppended ==
    LET e == hist'[Len(hist')]
        before == heap[e.recv]
        after == heap'[e.ret]
    IN /\ after.dml.where =
              Append(before.dml.where,
                     Group(before.nextType, ChainedNodes(e.arg)))
       /\ after.nextType = "AND"

\* C13 (part_002): whereGroup(q => { q.where(a).orWhere(b); }) appends one
\* Group node whose conditions are the conditions the callback chained on
\* the sub-builder, in order.
C13_GroupHoldsCallbackNodes ==
    [][ (impl = "part" /\ GroupStep) => GroupAppended ]_vars

\* C14 (lib): whereGroup(cb) appends exactly one Group node whose conditions
\* are the nodes cb added to the sub-builder, in order and with nested
\* groups preserved, tagged with the pending connective, which is reset to
\* AND; the nodes already in the parent's WHERE sequence are unchanged.
C14_GroupAppendedInPlace ==
    [][ (impl = "lib" /\ GroupStep) => GroupAppended ]_vars

\* or().whereGroup(cb) or where(..).whereGroup(cb) has run in lib with the
\* callback that opens a nested group
C14_Witness ==
    /\ impl = "lib"
    /\ Len(hist) = 2
    /\ Called1("whereGroup")
    /\ LET w == heap[Latest.ret].dml.where
       IN /\ w[Len(w)].isGroup
          /\ Len(w[Len(w)].conditions) = 2
          /\ w[Len(w)].conditions[2].isGroup
          /\ Len(w[Len(w)].conditions[2].conditions) = 2
          /\ (Len(w) = 2 \/ w[Len(w)].type = "OR")

\* the condition find(value, column) looks for
FindCond(a) == [column |-> a.column, operator |-> "=", value |-> a.value]

\* C15 (part_002): find(value, column) sends one select request whose WHERE
\* sequence is the builder's existing nodes followed by the leaf
\* (column, '=', value), with limit 1, and resolves to the first returned
\* row, or to null when no row is returned.
C15_FindAddsCondition ==
    (impl = "part" /\ Called1("find") /\ Len(sent) >= 1)
    => LET base == heap[Latest.recv].dml.where
           w == sent[1].dml.where
       IN /\ Len(sent) = 1
          /\ sent[1].dml.type = "select"
          /\ sent[1].dml.limit = Some(1)
          /\ Len(w) = Len(base) + 1
          /\ SubSeq(w, 1, Len(base)) = base
          /\ IsCond(w[Len(w)], FindCond(Latest.arg))
          /\ (Settled /\ Failures = {}) =>
                /\ outcome.state = "resolved"
                /\ outcome.value.tag \in {"row", "null"}

\* C16 (lib): successive find calls on one table handle are independent:
\* the request of a find holds its own (column = value) condition and none
\* of the conditions that earlier find calls looked for.
C16_FindsIndependent ==
    (impl = "lib" /\ Called1("find") /\ Len(sent) >= 1)
    => /\ HasCond(sent[1].dml.where, FindCond(Latest.arg))
       /\ \A j \in 1..(Len(hist) - 1) :
             (hist[j].op = "find" /\ hist[j].arg # Latest.arg)
                 => ~HasCond(sent[1].dml.where, FindCond(hist[j].arg))

\* positions of the log that hold an event of the kind, up to position k
Upto(ev, k) == {j \in 1..k : log[j].ev = ev}

\* the latest call is an insert that runs the per-row loop
RowLoopInsert ==
    /\ Called1("insert")
    /\ outcome.error # "ValidationError"
    /\ Len(heap[Latest.recv].triggers) > 0
    /\ \E k \in 1..Len(heap[Latest.recv].triggers) :
          heap[Latest.recv].triggers[k].type \in {"beforeAdd", "afterAdd"}

\* C17: within one terminal call the per-row requests of a multi-row
\* mutation are issued in input-row order, each carrying its own row; a
\* hook or a request starts only when every earlier request of the call has
\* completed, so no two requests are outstanding at once.
C17_RowsInOrderNoOverlap ==
    RowLoopInsert =>
        /\ \A i \in 1..Len(sent) :
              /\ sent[i].dml.data =
                    ArrayData(<<Latest.arg.items[sent[i].index + 1]>>)
              /\ sent[i].index = (IF i = 1 THEN 0 ELSE sent[i - 1].index)
                 \/ (i > 1 /\ sent[i].index = sent[i - 1].index + 1)
        /\ \A k \in 1..Len(log) :
              /\ log[k].ev \in {"request", "hook"} =>
                    Cardinality(Upto("request", k - 1)) =
                        Cardinality(Upto("response", k - 1))
              /\ \A j \in 1..k : log[j].index <= log[k].index

\* a two-row insert on a table with a trigger has sent both rows
C17_Witness ==
    /\ RowLoopInsert
    /\ Settled
    /\ Len(Latest.arg.items) = 2
    /\ Len(sent) >= 2
    /\ sent[1].index = 0
    /\ sent[Len(sent)].index = 1

\* both phases of the event are registered for the table
BothRegistered(t, event) ==
    /\ \E k \in 1..Len(t.triggers) :
          t.triggers[k] = Trig("before" \o event, t.dml.table)
    /\ \E k \in 1..Len(t.triggers) :
          t.triggers[k] = Trig("after" \o event, t.dml.table)

HooksOf(phase, index) ==
    {k \in Hooks : log[k].phase = phase /\ log[k].index = index}

RequestsOf(index) ==
    {k \in 1..Len(log) : log[k].ev = "request" /\ log[k].index = index}

\* the row has been sent, its before hook has run once and before it was
\* sent, its after hook has run once and after it was sent
HookedOnce(index) ==
    /\ RequestsOf(index) # {}
    /\ Cardinality(HooksOf("before", index)) = 1
    /\ Cardinality(HooksOf("after", index)) = 1
    /\ \A h \in HooksOf("before", index) : \A r \in RequestsOf(index) : h < r
    /\ \A h \in HooksOf("after", index) : \A r \in RequestsOf(index) : r < h

\* C18: when both a before and an after trigger of the event are registered
\* for the table, a mutation that completes has run, for every payload row,
\* the before hook exactly once and before the row was sent, and the after
\* hook exactly once and after the row was sent.
C18_BothHooksOncePerRow ==
    /\ ( /\ Called1("insert")
         /\ Settled /\ outcome.state = "resolved"
         /\ BothRegistered(heap[Latest.recv], "Add") )
       => \A i \in 1..Len(Latest.arg.items) : HookedOnce(i - 1)
    /\ ( /\ Called1("update")
         /\ Settled /\ outcome.state = "resolved"
         /\ BothRegistered(heap[Latest.recv], "Update") )
       => HookedOnce(0)

\* C19: delete() on a builder with at least one WHERE node, on a table with
\* a beforeDelete or afterDelete trigger, executes the hook and sends a
\* delete-type request carrying the builder's WHERE sequence; it does not
\* fail with an error that comes neither from the engine nor from the
\* handler.
C19_DeleteWithTrigger ==
    ( /\ Called1("delete")
      /\ Settled
      /\ Len(heap[Latest.recv].dml.where) >= 1
      /\ Registered(heap[Latest.recv], "Delete") )
    => /\ outcome.error \in {"", "EngineError", "HandlerError"}
       /\ (outcome.state = "resolved" =>
             /\ Hooks # {}
             /\ \E i \in 1..Len(sent) :
                   /\ sent[i].dml.type = "delete"
                   /\ sent[i].dml.where = heap[Latest.recv].dml.where)

\* C20: when a trigger handler throws while a row is processed, the call
\* rejects with that error, and no hook and no engine request follows the
\* throw, for that row or for a later one.
C20_HandlerErrorAborts ==
    \A k \in 1..Len(log) :
        log[k].ev = "throw" =>
            /\ k = Len(log)
            /\ Settled
            /\ outcome.state = "rejected"
            /\ outcome.error = "HandlerError"

\* the handler has thrown on the second row of an insert, after the first
\* row had been sent
C20_Witness ==
    /\ Called1("insert")
    /\ Len(Latest.arg.items) = 2
    /\ Len(log) > 0
    /\ log[Len(log)].ev = "throw"
    /\ log[Len(log)].index = 1
    /\ Len(sent) >= 1

\* positions of the history before k that hold a call of op made as the
\* README makes it, with its result not assigned
AwaitedBefore(op, k) ==
    {j \in 1..(k - 1) : hist[j].op = op /\ hist[j].arg = FALSE}

\* C21 (part_002): after `await db.useComputes()` and
\* `await db.useTriggers()` as the README shows, the builders obtained from
\* db.table(t) carry both the loaded computed-field list and the loaded
\* trigger list.
C21_ActivationReachesBuilders ==
    \A k \in 1..Len(hist) :
        ( /\ impl = "part"
          /\ hist[k].op = "table"
          /\ AwaitedBefore("useComputes", k) # {}
          /\ AwaitedBefore("useTriggers", k) # {} )
        => /\ heap[hist[k].ret].computedFields = ComputedRegistry
           /\ heap[hist[k].ret].triggers = LoadedTriggers

\* the operator needs a value
NeedsValue(operator) == operator \notin {"IS NULL", "IS NOT NULL"}

\* this step is a call of one of the ops
StepOf(opNames) == hist' # hist /\ hist'[Len(hist')].op \in opNames

\* C22: where(column, operator) and orWhere(column, operator) fail with a
\* validation error, appending no node, when the operator needs a value
\* and no value is supplied.
C22_MissingValueRejected ==
    [][ ( /\ StepOf({"where", "orWhere"})
          /\ NeedsValue(hist'[Len(hist')].arg.operator)
          /\ hist'[Len(hist')].arg.value = Undefined )
        => ( /\ hist'[Len(hist')].ret = 0
             /\ heap' = heap ) ]_vars

\* C23: where appends its leaf tagged with the pending connective and then
\* resets the pending connective to AND; orWhere appends its leaf tagged OR
\* and leaves the pending connective unchanged; and()/or() set the pending
\* connective and append no node.
C23_ConnectiveRules ==
    [][ StepOf({"where", "orWhere", "or", "and"}) =>
          LET e == hist'[Len(hist')]
              before == heap[e.recv]
              after == heap'[e.ret]
          IN CASE e.op = "where" ->
                    /\ after.dml.where =
                          Append(before.dml.where,
                                 Leaf(e.arg.column, e.arg.operator,
                                      e.arg.value, before.nextType))
                    /\ after.nextType = "AND"
               [] e.op = "orWhere" ->
                    /\ after.dml.where =
                          Append(before.dml.where,
                                 Leaf(e.arg.column, e.arg.operator,
                                      e.arg.value, "OR"))
                    /\ after.nextType = before.nextType
               [] e.op = "or" ->
                    /\ after.dml.where = before.dml.where
                    /\ after.nextType = "OR"
               [] OTHER ->
                    /\ after.dml.where = before.dml.where
                    /\ after.nextType = "AND" ]_vars

\* or().orWhere(a).where(b) has run: b is tagged OR
C23_Witness ==
    /\ Len(hist) = 3
    /\ hist[1].op = "or" /\ hist[2].op = "orWhere" /\ hist[3].op = "where"
    /\ hist[2].recv = hist[1].ret /\ hist[3].recv = hist[2].ret
    /\ Len(heap[hist[3].ret].dml.where) = 2
    /\ heap[hist[3].ret].dml.where[2].type = "OR"
    /\ heap[hist[3].ret].nextType = "AND"

WhereFamily ==
    { "where", "orWhere", "whereBetween", "whereIn", "whereNull",
      "whereNotNull", "whereGroup" }

\* the call e is one the method skips
SkippedCall(e) ==
    \/ e.op = "whereBetween" /\ (e.arg[1] = Undefined \/ e.arg[2] = Undefined)
    \/ e.op = "whereIn" /\ (e.arg.tag # "array" \/ Len(e.arg.v) = 0)

\* the node is the one the call e makes
NodeOfCall(node, e) ==
    CASE e.op \in {"where", "orWhere"} -> IsCond(node, e.arg)
      [] e.op = "whereBetween" ->
            ~node.isGroup /\ node.operator = "BETWEEN"
            /\ node.value = Array(<<e.arg[1], e.arg[2]>>)
      [] e.op = "whereIn" ->
            ~node.isGroup /\ node.operator = "IN" /\ node.value = e.arg
      [] e.op = "whereNull" -> ~node.isGroup /\ node.operator = "IS NULL"
      [] e.op = "whereNotNull" -> ~node.isGroup /\ node.operator = "IS NOT NULL"
      [] OTHER -> node.isGroup

\* C24: every call of the where family that is not skipped appends exactly
\* one node, its own, after the nodes already there, so a chain from a
\* fresh builder holds one node per non-skipped call in call order;
\* whereBetween with an undefined bound and whereIn with an empty or
\* non-array value append nothing and leave the descriptor and the pending
\* connective unchanged.
C24_OneNodePerCall ==
    [][ StepOf(WhereFamily) =>
          LET e == hist'[Len(hist')]
              before == heap[e.recv]
              after == heap'[e.ret]
          IN IF SkippedCall(e)
             THEN after.dml = before.dml /\ after.nextType = before.nextType
             ELSE /\ Len(after.dml.where) = Len(before.dml.where) + 1
                  /\ SubSeq(after.dml.where, 1, Len(before.dml.where))
                        = before.dml.where
                  /\ NodeOfCall(after.dml.where[Len(after.dml.where)], e) ]_vars

\* a chain where(a).whereBetween(undefined bound).whereIn([1, 2]) has run:
\* two nodes, in call order
C24_Witness ==
    /\ Len(hist) = 3
    /\ hist[1].op = "where" /\ hist[2].op = "whereBetween"
    /\ hist[3].op = "whereIn"
    /\ hist[1].recv = 1
    /\ hist[2].recv = hist[1].ret /\ hist[3].recv = hist[2].ret
    /\ SkippedCall(hist[2]) /\ ~SkippedCall(hist[3])
    /\ Len(heap[hist[3].ret].dml.where) = 2
    /\ NodeOfCall(heap[hist[3].ret].dml.where[1], hist[1])
    /\ NodeOfCall(heap[hist[3].ret].dml.where[2], hist[3])

\* the first node of the sequence, and of every group in it, is tagged AND
RECURSIVE FirstNodesAnd(_)
FirstNodesAnd(whereSeq) ==
    /\ whereSeq # <<>> => whereSeq[1].type = "AND"
    /\ \A n \in 1..Len(whereSeq) :
          whereSeq[n].isGroup => FirstNodesAnd(whereSeq[n].conditions)

\* C30: in every reachable descriptor, the first node of the top-level
\* WHERE sequence and of every group's conditions has connective AND.
C30_FirstNodeAnd ==
    \A b \in 1..Len(heap) : FirstNodesAnd(heap[b].dml.where)

\* C25: page(n) sets offset = (n-1) * limit using the limit in force when
\* page is called, and leaves offset unset when no limit has been set
\* before it.
C25_PageOffset ==
    [][ StepOf({"page"}) =>
          LET e == hist'[Len(hist')]
              before == heap[e.recv]
              after == heap'[e.ret]
          IN IF before.dml.limit # Null
             THEN after.dml.offset = Some((e.arg - 1) * before.dml.limit[1])
             ELSE after.dml.offset = Null ]_vars

\* C29: orderBy(column, direction) appends (column, uppercased direction)
\* when direction is ASC or DESC in any letter case, and otherwise fails
\* with an error, leaving the orderBy sequence and every other descriptor
\* field unchanged.
C29_OrderByDirection ==
    [][ StepOf({"orderBy"}) =>
          LET e == hist'[Len(hist')]
              before == heap[e.recv]
          IN IF e.arg \in {"ASC", "asc", "DESC", "desc"}
             THEN /\ e.ret # 0
                  /\ heap'[e.ret] =
                        [before EXCEPT !.dml.orderBy =
                            Append(@, [ column |-> "name",
                                        direction |->
                                           IF e.arg \in {"ASC", "asc"}
                                           THEN "ASC" ELSE "DESC" ])]
             ELSE /\ e.ret = 0
                  /\ outcome'.state = "rejected" /\ outcome'.error = "Error"
                  /\ heap' = heap ]_vars

\* orderBy('name', 'desc') then orderBy('name', 'up') have run on the same
\* builder: one entry, DESC, and the second call has failed
C29_Witness ==
    /\ Len(hist) = 2
    /\ hist[1].op = "orderBy" /\ hist[1].arg = "desc" /\ hist[1].recv = 1
    /\ hist[2].op = "orderBy" /\ hist[2].arg = "up"
    /\ hist[2].recv = hist[1].ret /\ hist[2].ret = 0
    /\ outcome.state = "rejected"
    /\ heap[hist[1].ret].dml.orderBy
          = << [column |-> "name", direction |-> "DESC"] >>

\* C26 (lib): select(cols), then an aggregate shortcut, then groupBy, then
\* get sends a request whose column list contains both the selected
\* columns and the aggregate expression.
C26_GroupedAggregateColumns ==
    ( /\ impl = "lib"
      /\ Len(hist) = 4
      /\ hist[1].op = "select" /\ hist[2].op \in Aggregates
      /\ hist[3].op = "groupBy" /\ hist[4].op = "get"
      /\ Len(sent) > 0 )
    => (Range(hist[1].arg) \cup {AggregateExpr(hist[2].op, hist[2].arg)})
          \subseteq Range(sent[1].dml.columns)

\* the aggregation type of the function name
AggregationType(fn) ==
    CASE fn = "count" -> "COUNT" [] fn = "sum" -> "SUM" [] fn = "avg" -> "AVG"
      [] fn = "max" -> "MAX" [] OTHER -> "MIN"

\* C27 (lib): each aggregate shortcut sets aggregation to {type, column,
\* alias = the function name}, sets columns to exactly one aggregate
\* expression aliased to the function name, and sets limit = 1.
C27_AggregateShape ==
    [][ (impl = "lib" /\ StepOf(Aggregates)) =>
          LET e == hist'[Len(hist')]
              after == heap'[e.ret]
          IN /\ after.dml.aggregation =
                   Some([ type |-> AggregationType(e.op), column |-> e.arg,
                          alias |-> e.op ])
             /\ after.dml.columns = <<AggregateExpr(e.op, e.arg)>>
             /\ after.dml.limit = Some(1) ]_vars

\* C28 (part_002): a terminal aggregate that resolves, resolves to a
\* number: 0 when the engine reports no row or a row without a value
\* under the alias, the value under the alias otherwise; never null or
\* undefined.
C28_AggregateResolvesNumber ==
    ( /\ impl = "part"
      /\ Len(hist) > 0 /\ Latest.op \in Aggregates
      /\ Settled /\ outcome.state = "resolved" )
    => outcome.value.tag = "number"

\* C31: in every reachable descriptor, limit and offset are each either
\* unset or a non-negative integer, for every sequence of limit(l) with
\* l >= 0 and page(n) with any integer n.
C31_LimitOffsetNonNegative ==
    \A b \in 1..Len(heap) :
        /\ heap[b].dml.limit # Null => heap[b].dml.limit[1] >= 0
        /\ heap[b].dml.offset # Null => heap[b].dml.offset[1] >= 0

\* positions of the log that hold the event ev
EventsOf(ev) == {k \in 1..Len(log) : log[k].ev = ev}

\* C32: every log capture that Trigger.execute begins is ended (the console
\* interceptor is restored) before execute completes, on every outcome of
\* the handler, including when the handler throws or rejects.
C32_CaptureAlwaysRestored ==
    call.pc = "idle" =>
        \A k \in EventsOf("hook") :
            \E j \in EventsOf("restore") :
                /\ j > k
                /\ \A i \in EventsOf("hook") : ~(k < i /\ i < j)

\* the type of the entry a join method appends
JoinType(op) ==
    CASE op = "join" -> "INNER" [] op = "leftJoin" -> "LEFT" [] OTHER -> "RIGHT"

\* C33: joins, orderBy and groupBy only ever grow by appending: each
\* join/leftJoin/rightJoin call appends one entry of type INNER/LEFT/RIGHT,
\* each valid orderBy call one (column, direction) pair, each groupBy call
\* one column, duplicates kept; no other builder step changes the three
\* sequences.
C33_AppendOnly ==
    [][ (hist' # hist /\ hist'[Len(hist')].ret # 0) =>
          LET e == hist'[Len(hist')]
              before == heap[e.recv].dml
              after == heap'[e.ret].dml
          IN /\ IF e.op \in {"join", "leftJoin", "rightJoin"}
                THEN /\ Len(after.joins) = Len(before.joins) + 1
                     /\ SubSeq(after.joins, 1, Len(before.joins)) = before.joins
                     /\ after.joins[Len(after.joins)].type = JoinType(e.op)
                ELSE after.joins = before.joins
             /\ IF e.op = "orderBy"
                THEN /\ Len(after.orderBy) = Len(before.orderBy) + 1
                     /\ SubSeq(after.orderBy, 1, Len(before.orderBy))
                           = before.orderBy
                     /\ after.orderBy[Len(after.orderBy)].direction
                           \in {"ASC", "DESC"}
                ELSE after.orderBy = before.orderBy
             /\ IF e.op = "groupBy"
                THEN after.groupBy = Append(before.groupBy, "age")
                ELSE after.groupBy = before.groupBy ]_vars

\* leftJoin(..).join(..).groupBy('age') has run on one chain: the joins are
\* LEFT then INNER
C33_Witness ==
    /\ Len(hist) = 3
    /\ hist[1].op = "leftJoin" /\ hist[2].op = "join" /\ hist[3].op = "groupBy"
    /\ hist[1].recv = 1
    /\ hist[2].recv = hist[1].ret /\ hist[3].recv = hist[2].ret
    /\ Len(heap[hist[3].ret].dml.joins) = 2
    /\ heap[hist[3].ret].dml.joins[1].type = "LEFT"
    /\ heap[hist[3].ret].dml.joins[2].type = "INNER"
    /\ heap[hist[3].ret].dml.groupBy = <<"age">>

\* the insert call whose requests `sent` holds
LastInsert ==
    LET ks == {k \in 1..Len(hist) : hist[k].op = "insert"}
    IN hist[CHOOSE k \in ks : \A j \in ks : j <= k]

InsertPayload == LastInsert.arg

\* C34 (lib): while an insert with a registered trigger is suspended at a
\* hook or engine await, starting another terminal call (get()) on the
\* same builder does not change the insert's per-row requests: each has
\* type insert and carries exactly one of the insert's own payload rows.
C34_InsertRequestsUnaffected ==
    ( /\ impl = "lib"
      /\ Len(sent) > 0
      /\ Registered(heap[LastInsert.recv], "Add") ) =>
        \A i \in 1..Len(sent) :
            /\ sent[i].dml.type = "insert"
            /\ \E k \in 1..Len(InsertPayload.items) :
                  sent[i].dml.data = ArrayData(<<InsertPayload.items[k]>>)

\* C35 (lib): get() is repeatable: the second of two consecutive get()
\* calls on the builder that select(C) returned sends the request the first
\* one sent and, for the same engine response, returns the same rows; when
\* C holds a computed field the rows of the second result still expose it.
C35_GetRepeatable ==
    ( /\ impl = "lib"
      /\ Len(hist) = 3
      /\ hist[1].op = "select" /\ hist[2].op = "get" /\ hist[3].op = "get"
      /\ hist[2].recv = hist[1].ret /\ hist[3].recv = hist[1].ret
      /\ Settled
      /\ outcome.state = "resolved"
      /\ outcome.value.tag = "array" )
    => \A i \in 1..Len(outcome.value.v) :
          (Range(hist[1].arg) \cap ComputedNames(heap[hist[1].ret]))
             \subseteq outcome.value.v[i]

\* the page number of the last page call on the chain that led to builder
\* x, among the first k calls; Null when there is none
RECURSIVE LastPage(_, _)
LastPage(x, k) ==
    IF k = 0 THEN Null
    ELSE IF hist[k].ret = x
         THEN IF hist[k].op = "page" THEN Some(hist[k].arg)
              ELSE LastPage(hist[k].recv, k - 1)
         ELSE LastPage(x, k - 1)

\* C36: whenever a request is dispatched with an offset set, that offset
\* equals (p-1) * limit for the request's own limit and the last page
\* number p given to page, whatever order limit, page and first were called
\* in.
C36_OffsetMatchesLimit ==
    ( /\ Len(hist) > 0 /\ Latest.op \in {"get", "first"}
      /\ Len(sent) > 0
      /\ sent[1].dml.offset # Null )
    => LET p == LastPage(Latest.recv, Len(hist) - 1)
       IN /\ p # Null
          /\ sent[1].dml.limit # Null
          /\ sent[1].dml.offset[1] = (p[1] - 1) * sent[1].dml.limit[1]

\* no trigger of a delete type is loaded
NoDeleteTrigger(t) ==
    \A k \in 1..Len(t.triggers) :
        t.triggers[k].type \notin {"beforeDelete", "afterDelete"}

\* the responses the engine has given in this call, in order
ResponseEvents ==
    LET ks == EventsOf("response")
    IN [ i \in 1..Cardinality(ks) |->
           log[CHOOSE k \in ks : Cardinality({j \in ks : j <= k}) = i] ]

====
